---- MODULE Spec2Model ----
(***************************************************************************)
(* Model of codalab/worker/download_util.py (resolution of a BundleTarget  *)
(* against a bundle root, and the depth-bounded index of the resolved      *)
(* location on the local filesystem or inside an azfs archive), and of the *)
(* partial-read scenario of tests/unit/beam/streamingzipfile_test.py.      *)
(*                                                                         *)
(* A Python str is a sequence of one-character strings, so that            *)
(* str.startswith, str.split, os.path.normpath and friends are computed on *)
(* the text, character by character, as the code computes them.  The only  *)
(* multi-character strings are record tags and the fixed English text of   *)
(* an exception message.                                                   *)
(***************************************************************************)
EXTENDS Integers, Sequences, FiniteSets, TLC

VARIABLES req, res, zin, zbuf, zpos, zstate, zout, zresumed

vars == <<req, res, zin, zbuf, zpos, zstate, zout, zresumed>>

(***************************************************************************)
(* Python str primitives                                                   *)
(***************************************************************************)
StartsWith(s, p) == Len(p) <= Len(s) /\ SubSeq(s, 1, Len(p)) = p

EndsWith(s, p) == Len(p) <= Len(s) /\ SubSeq(s, Len(s) - Len(p) + 1, Len(s)) = p

Drop(s, n) == SubSeq(s, n + 1, Len(s))

\* index of the first c in s, 0 when there is none
RECURSIVE Find(_, _, _)
Find(s, c, i) ==
    IF i > Len(s) THEN 0
    ELSE IF s[i] = c THEN i
    ELSE Find(s, c, i + 1)

\* s.split(c): always at least one piece; "" splits to [""]
RECURSIVE Split(_, _)
Split(s, c) ==
    LET i == Find(s, c, 1)
    IN  IF i = 0 THEN <<s>>
        ELSE <<SubSeq(s, 1, i - 1)>> \o Split(Drop(s, i), c)

\* s.split(c, n): at most n splits
RECURSIVE SplitN(_, _, _)
SplitN(s, c, n) ==
    LET i == Find(s, c, 1)
    IN  IF i = 0 \/ n = 0 THEN <<s>>
        ELSE <<SubSeq(s, 1, i - 1)>> \o SplitN(Drop(s, i), c, n - 1)

\* c.join(parts)
RECURSIVE Join(_, _)
Join(parts, c) ==
    IF parts = <<>> THEN <<>>
    ELSE IF Len(parts) = 1 THEN parts[1]
    ELSE parts[1] \o <<c>> \o Join(Tail(parts), c)

RECURSIVE RStrip(_, _)
RStrip(s, c) ==
    IF s # <<>> /\ s[Len(s)] = c THEN RStrip(SubSeq(s, 1, Len(s) - 1), c) ELSE s

RECURSIVE LStrip(_, _)
LStrip(s, c) ==
    IF s # <<>> /\ s[1] = c THEN LStrip(Tail(s), c) ELSE s

\* s.replace(old, ""): every non-overlapping occurrence, left to right
RECURSIVE Remove(_, _)
Remove(s, old) ==
    IF old = <<>> \/ s = <<>> THEN s
    ELSE IF StartsWith(s, old) THEN Remove(Drop(s, Len(old)), old)
    ELSE <<s[1]>> \o Remove(Tail(s), old)

SEP == "/"

AZFS == <<"a", "z", "f", "s", ":", "/", "/">>

DOTDOT == <<".", ".">>

DOT == <<".">>

IsAzfs(path) == StartsWith(path, AZFS)

(***************************************************************************)
(* posixpath.normpath                                                      *)
(***************************************************************************)
RECURSIVE NormComps(_, _, _)
NormComps(comps, new, initial) ==
    IF comps = <<>> THEN new
    ELSE
        LET comp == Head(comps)
            rest == Tail(comps)
        IN  IF comp = <<>> \/ comp = DOT THEN NormComps(rest, new, initial)
            ELSE IF comp # DOTDOT
                    \/ (initial = 0 /\ new = <<>>)
                    \/ (new # <<>> /\ new[Len(new)] = DOTDOT)
                 THEN NormComps(rest, Append(new, comp), initial)
            ELSE IF new # <<>>
                 THEN NormComps(rest, SubSeq(new, 1, Len(new) - 1), initial)
            ELSE NormComps(rest, new, initial)

normpath(path) ==
    IF path = <<>> THEN DOT
    ELSE
        LET initial ==
                IF ~StartsWith(path, <<SEP>>) THEN 0
                ELSE IF StartsWith(path, <<SEP, SEP>>) /\ ~StartsWith(path, <<SEP, SEP, SEP>>)
                     THEN 2
                ELSE 1
            body == Join(NormComps(Split(path, SEP), <<>>, initial), SEP)
            out == [i \in 1..initial |-> SEP] \o body
        IN  IF out = <<>> THEN DOT ELSE out

(***************************************************************************)
(* The local filesystem the worker runs on: a node for every absolute path, *)
(* keyed by its components.  /x/a is a bundle, /x/r a symbolic link to it,  *)
(* /x/ab a sibling directory whose name begins with the bundle's name.      *)
(***************************************************************************)
nx == <<"x">>

na == <<"a">>

nab == <<"a", "b">>

nb == <<"b">>

nd == <<"d">>

nf == <<"f">>

nl == <<"l">>

np == <<"p">>

nr == <<"r">>

Dir == [kind |-> "dir", size |-> 4, mode |-> 493, target |-> <<>>]

File(n) == [kind |-> "file", size |-> n, mode |-> 420, target |-> <<>>]

Link(t) == [kind |-> "link", size |-> Len(t), mode |-> 511, target |-> t]

Fifo == [kind |-> "fifo", size |-> 0, mode |-> 420, target |-> <<>>]

Disk ==
    (<<>> :> Dir)
    @@ (<<nx>> :> Dir)
    @@ (<<nx, na>> :> Dir)
    @@ (<<nx, na, nf>> :> File(3))
    @@ (<<nx, na, nd>> :> Dir)
    @@ (<<nx, na, nd, nf>> :> File(5))
    @@ (<<nx, na, nd, np>> :> Fifo)
    @@ (<<nx, na, nl>> :> Link(<<"/", "x", "/", "a", "b">>))
    @@ (<<nx, na, nb>> :> Link(<<"z">>))
    @@ (<<nx, nab>> :> Dir)
    @@ (<<nx, nab, nf>> :> File(7))
    @@ (<<nx, nr>> :> Link(<<"a">>))

\* symbolic links followed in one resolution before it fails (ELOOP)
MaxLinks == 4

NoEnt == [ok |-> FALSE]

\* the kernel's path walk: every symbolic link but, unless followLast, the
\* last component is followed; '..' is the parent of the directory reached
RECURSIVE Walk(_, _, _, _)
Walk(cur, rest, followLast, fuel) ==
    IF rest = <<>> THEN [ok |-> TRUE, at |-> cur]
    ELSE
        LET comp == Head(rest)
            more == Tail(rest)
            next == Append(cur, comp)
        IN  IF Disk[cur].kind # "dir" THEN NoEnt
            ELSE IF comp = <<>> \/ comp = DOT THEN Walk(cur, more, followLast, fuel)
            ELSE IF comp = DOTDOT
                 THEN Walk(IF cur = <<>> THEN cur ELSE SubSeq(cur, 1, Len(cur) - 1),
                           more, followLast, fuel)
            ELSE IF next \notin DOMAIN Disk THEN NoEnt
            ELSE IF Disk[next].kind = "link" /\ (more # <<>> \/ followLast)
                 THEN IF fuel = 0 THEN NoEnt
                      ELSE Walk(IF StartsWith(Disk[next].target, <<SEP>>) THEN <<>> ELSE cur,
                                Split(Disk[next].target, SEP) \o more, followLast, fuel - 1)
            ELSE Walk(next, more, followLast, fuel)

lstat(path) == Walk(<<>>, Split(path, SEP), FALSE, MaxLinks)

stat(path) == Walk(<<>>, Split(path, SEP), TRUE, MaxLinks)

islink(path) == lstat(path).ok /\ Disk[lstat(path).at].kind = "link"

isfile(path) == stat(path).ok /\ Disk[stat(path).at].kind = "file"

isdir(path) == stat(path).ok /\ Disk[stat(path).at].kind = "dir"

exists(path) == stat(path).ok

readlink(path) == Disk[lstat(path).at].target

basename(path) == LET parts == Split(path, SEP) IN parts[Len(parts)]

join(path, name) ==
    IF path = <<>> \/ EndsWith(path, <<SEP>>) THEN path \o name
    ELSE path \o <<SEP>> \o name

RECURSIVE SetToSeq(_)
SetToSeq(S) ==
    IF S = {} THEN <<>>
    ELSE LET e == CHOOSE e \in S : TRUE IN <<e>> \o SetToSeq(S \ {e})

\* os.listdir: the names in the directory, in an order the filesystem fixes
listdir(path) ==
    LET at == stat(path).at
    IN  SetToSeq({k[Len(k)] : k \in {k \in DOMAIN Disk :
                      Len(k) = Len(at) + 1 /\ SubSeq(k, 1, Len(at)) = at}})

\* posixpath.realpath of an absolute path (bundle locations are absolute; Disk
\* has no cycle of links): components are appended one by
\* one, a component that is a symbolic link is replaced by its resolved target
RECURSIVE JoinRealPath(_, _, _)
JoinRealPath(path, rest, fuel) ==
    IF rest = <<>> THEN path
    ELSE
        LET name == Head(rest)
            more == Tail(rest)
            newpath == Append(path, name)
        IN  IF name = <<>> \/ name = DOT THEN JoinRealPath(path, more, fuel)
            ELSE IF name = DOTDOT
                 THEN JoinRealPath(IF path = <<>> THEN path
                                   ELSE SubSeq(path, 1, Len(path) - 1), more, fuel)
            ELSE IF newpath \in DOMAIN Disk /\ Disk[newpath].kind = "link" /\ fuel > 0
                 THEN LET t == Disk[newpath].target
                      IN  JoinRealPath(
                              JoinRealPath(IF StartsWith(t, <<SEP>>) THEN <<>> ELSE path,
                                           Split(t, SEP), fuel - 1),
                              more, fuel)
            ELSE JoinRealPath(newpath, more, fuel)

realpath(path) == <<SEP>> \o Join(JoinRealPath(<<>>, Split(path, SEP), MaxLinks), SEP)

(***************************************************************************)
(* download_util: path resolution                                          *)
(***************************************************************************)
NOT_INSIDE == " is not inside the bundle."

IS_SYMLINK == " is a symlink and following symlinks is not allowed."

BundleTarget(bundle_uuid, subpath) == [bundle_uuid |-> bundle_uuid, subpath |-> subpath]

Return(v) == [kind |-> "return", value |-> v]

Raise(type, message) == [kind |-> "raise", type |-> type, message |-> message]

_get_target_path(bundle_path, path) ==
    IF path # <<>> THEN bundle_path \o <<SEP>> \o path ELSE bundle_path

\* _get_normalized_target_path reporting the resolved location in its message
_get_normalized_target_path_Leaky(bundle_path, target) ==
    LET real_bundle_path == IF IsAzfs(bundle_path) THEN bundle_path ELSE realpath(bundle_path)
        joined == _get_target_path(real_bundle_path, target.subpath)
        normalized_target_path == IF ~IsAzfs(joined) THEN normpath(joined) ELSE joined
    IN  IF ~StartsWith(normalized_target_path, real_bundle_path)
        THEN Raise("PathException", normalized_target_path \o <<NOT_INSIDE>>)
        ELSE Return(normalized_target_path)

_get_normalized_target_path(bundle_path, target) ==
    LET real_bundle_path == IF IsAzfs(bundle_path) THEN bundle_path ELSE realpath(bundle_path)
        joined == _get_target_path(real_bundle_path, target.subpath)
        normalized_target_path == IF ~IsAzfs(joined) THEN normpath(joined) ELSE joined
        error_path == _get_target_path(target.bundle_uuid, target.subpath)
    IN  IF ~StartsWith(normalized_target_path, real_bundle_path)
        THEN Raise("PathException", error_path \o <<NOT_INSIDE>>)
        ELSE Return(normalized_target_path)

\* get_target_path with the symlink test applied to the bundle root instead of
\* the resolved target
get_target_path_RootTested(bundle_path, target) ==
    LET final_path == _get_normalized_target_path(bundle_path, target)
        error_path == _get_target_path(target.bundle_uuid, target.subpath)
    IN  IF final_path.kind = "raise" THEN final_path
        ELSE IF islink(bundle_path)
             THEN Raise("PathException", error_path \o <<IS_SYMLINK>>)
        ELSE Return(final_path.value)

get_target_path(bundle_path, target) ==
    LET final_path == _get_normalized_target_path(bundle_path, target)
        error_path == _get_target_path(target.bundle_uuid, target.subpath)
    IN  IF final_path.kind = "raise" THEN final_path
        ELSE IF islink(final_path.value)
             THEN Raise("PathException", error_path \o <<IS_SYMLINK>>)
        ELSE Return(final_path.value)

(***************************************************************************)
(* The azfs blob store and the archives in it.  An archive is zipfile's    *)
(* infolist(): the entries in file order, a directory entry being one whose *)
(* filename ends with '/'.                                                  *)
(***************************************************************************)
FILE_TXT == <<"f", "i", "l", "e", ".", "t", "x", "t">>

DOT_ZIP == <<".", "z", "i", "p">>

CONTENTS == <<"c", "o", "n", "t", "e", "n", "t", "s">>

CONTENTS_ZIP == CONTENTS \o DOT_ZIP

STORAGE == <<"s", "t", "o", "r", "a", "g", "e", "c", "l", "w", "s", "d", "e", "v", "0">>

BUNDLES == <<"b", "u", "n", "d", "l", "e", "s">>

uu == <<"u">>

uv == <<"v">>

uw == <<"w">>

Locator(account, container, bundle_uuid, contents_file) ==
    AZFS \o Join(<<account, container, bundle_uuid, contents_file>>, SEP)

ZipInfo(filename, file_size) == [filename |-> filename, file_size |-> file_size]

\* the archive of StreamingZipFileTest.create_zip_complex
ComplexZip ==
    << ZipInfo(<<"a", "/">>, 0),
       ZipInfo(<<"a", "/", "b", "/">>, 0),
       ZipInfo(<<"a", "/", "b", "/">> \o FILE_TXT, 11),
       ZipInfo(<<"c", "/">>, 0),
       ZipInfo(<<"c", "/", "d", "/">>, 0),
       ZipInfo(<<"c", "/", "d", "/", "e", "/">>, 0),
       ZipInfo(FILE_TXT, 11) >>

OtherZip ==
    << ZipInfo(<<"b", "/">>, 0),
       ZipInfo(<<"b", "/", "a">>, 2),
       ZipInfo(<<"a">>, 4) >>

Blobs ==
    (Locator(STORAGE, BUNDLES, uu, CONTENTS_ZIP) :> [kind |-> "zip", infolist |-> ComplexZip])
    @@ (Locator(<<"s">>, <<"c">>, uu, CONTENTS_ZIP) :> [kind |-> "zip", infolist |-> OtherZip])
    @@ (Locator(STORAGE, BUNDLES, uv, CONTENTS) :> [kind |-> "file", size_in_bytes |-> 9])

is_dir(zipinfo) == EndsWith(zipinfo.filename, <<SEP>>)

RECURSIVE Sum(_)
Sum(ns) == IF ns = <<>> THEN 0 ELSE Head(ns) + Sum(Tail(ns))

\* codalab.lib.path_util.parse_azure_url:
\* azfs://account/container/uuid/contents.zip[/subpath] names an archive (and a
\* path inside it), any other contents file a single blob
parse_azure_url(url) ==
    LET parts == SplitN(Drop(url, Len(AZFS)), SEP, 4)
        is_zip == Len(parts) >= 4 /\ EndsWith(parts[4], DOT_ZIP)
    IN  [bundle_uuid |-> IF Len(parts) >= 3 THEN parts[3] ELSE <<>>,
         is_zip |-> is_zip,
         zip_path |-> IF is_zip THEN AZFS \o Join(SubSeq(parts, 1, 4), SEP) ELSE <<>>,
         zip_subpath |-> IF is_zip /\ Len(parts) = 5 THEN parts[5] ELSE <<>>]

(***************************************************************************)
(* download_util: the index of a resolved location                         *)
(***************************************************************************)
get_last_part(path) == LET parts == Split(path, SEP) IN parts[Len(parts)]

\* the first exception raised while a list comprehension is built, if any
RECURSIVE FirstRaise(_)
FirstRaise(outcomes) ==
    IF outcomes = <<>> THEN <<>>
    ELSE IF Head(outcomes).kind = "raise" THEN <<Head(outcomes)>>
    ELSE FirstRaise(Tail(outcomes))

Values(outcomes) == [i \in 1..Len(outcomes) |-> outcomes[i].value]

\* the entries _compute_target_info_beam lists under zip_subpath
BeamListed(infolist, zip_subpath) ==
    LET dirs == SelectSeq(infolist, LAMBDA z : is_dir(z) /\ ~StartsWith(z.filename, zip_subpath))
        InDirs(z) == \E i \in 1..Len(dirs) : StartsWith(z.filename, dirs[i].filename)
    IN  SelectSeq(infolist, LAMBDA z : StartsWith(z.filename, zip_subpath)
                                     /\ ~(InDirs(z) /\ ~is_dir(z)))

BeamChildUrl(bundle_uuid, filename) ==
    Locator(STORAGE, BUNDLES, bundle_uuid, CONTENTS_ZIP) \o <<SEP>> \o filename

BeamHasContents(depth) == depth > 0

\* FileSystems.match on a blob that is not there matches nothing (IndexError on
\* metadata_list[0]), FileSystems.open of one fails with the store's I/O error,
\* ZipFile.getinfo of a name that is no entry raises KeyError.
RECURSIVE _compute_target_info_beam(_, _)
_compute_target_info_beam(path, depth) ==
    LET url == parse_azure_url(path)
        zip_subpath == url.zip_subpath
    IN  IF zip_subpath = <<SEP>> \o <<"i", "m", "a", "g", "e", "s">> \o <<SEP>>
        THEN Raise("Exception", path \o zip_subpath)
        ELSE IF ~url.is_zip
        THEN IF path \notin DOMAIN Blobs THEN Raise("IndexError", <<>>)
             ELSE Return([name |-> basename(path), type |-> "file",
                          size |-> Blobs[path].size_in_bytes, perm |-> 511])
        ELSE IF url.zip_path \notin DOMAIN Blobs THEN Raise("IOError", url.zip_path)
        ELSE
            LET infolist == Blobs[url.zip_path].infolist
                found == SelectSeq(infolist, LAMBDA z : z.filename = zip_subpath)
                whole == zip_subpath = <<>>
            IN  IF ~whole /\ found = <<>> THEN Raise("KeyError", zip_subpath)
                ELSE IF ~whole /\ ~is_dir(found[1])
                THEN Return([name |-> found[1].filename, type |-> "file",
                             size |-> found[1].file_size, perm |-> 511, fs |-> "azure"])
                ELSE
                    LET base ==
                            IF whole
                            THEN [name |-> url.bundle_uuid, type |-> "directory",
                                  size |-> Sum([i \in 1..Len(infolist) |-> infolist[i].file_size]),
                                  perm |-> 511]
                            ELSE [name |-> found[1].filename, type |-> "directory",
                                  size |-> found[1].file_size, perm |-> 511]
                        listed == BeamListed(infolist, zip_subpath)
                        e == [i \in 1..Len(listed) |->
                                 RStrip(Remove(path, zip_subpath), SEP) \o <<SEP>>
                                     \o LStrip(listed[i].filename, SEP)]
                        children ==
                            [i \in 1..Len(listed) |->
                                IF ~is_dir(listed[i])
                                THEN Return([name |-> get_last_part(listed[i].filename),
                                             type |-> "file",
                                             size |-> listed[i].file_size, perm |-> 511])
                                ELSE _compute_target_info_beam(
                                         BeamChildUrl(url.bundle_uuid, listed[i].filename),
                                         depth - 1)]
                    IN  IF BeamHasContents(depth)
                        THEN IF FirstRaise(children) # <<>> THEN FirstRaise(children)[1]
                             ELSE Return(base @@ [e |-> e, contents |-> Values(children),
                                                  fs |-> "azure"])
                        ELSE Return(base @@ [e |-> e, fs |-> "azure"])

\* the archive blobs _compute_target_info_beam(path, depth) hands to
\* FileSystems.open, its nested calls included; the list comprehension stops at
\* the first nested call that raises
RECURSIVE BeamOpened(_, _)
BeamOpened(path, depth) ==
    LET url == parse_azure_url(path)
    IN  IF ~url.is_zip
           \/ url.zip_subpath = <<SEP>> \o <<"i", "m", "a", "g", "e", "s">> \o <<SEP>>
        THEN {}
        ELSE IF url.zip_path \notin DOMAIN Blobs THEN {url.zip_path}
        ELSE
            LET infolist == Blobs[url.zip_path].infolist
                found == SelectSeq(infolist, LAMBDA z : z.filename = url.zip_subpath)
                whole == url.zip_subpath = <<>>
                listed == BeamListed(infolist, url.zip_subpath)
                ChildUrl(i) == BeamChildUrl(url.bundle_uuid, listed[i].filename)
                Reached(i) ==
                    /\ is_dir(listed[i])
                    /\ \A j \in 1..(i - 1) :
                           is_dir(listed[j]) =>
                               _compute_target_info_beam(ChildUrl(j), depth - 1).kind
                                   = "return"
            IN  IF (~whole /\ (found = <<>> \/ ~is_dir(found[1]))) \/ ~BeamHasContents(depth)
                THEN {url.zip_path}
                ELSE {url.zip_path}
                         \cup UNION {BeamOpened(ChildUrl(i), depth - 1) :
                                        i \in {k \in 1..Len(listed) : Reached(k)}}

LocalType(path) ==
    IF islink(path) THEN [type |-> "link", link |-> readlink(path)]
    ELSE IF isfile(path) THEN [type |-> "file"]
    ELSE IF isdir(path) THEN [type |-> "directory"]
    ELSE <<>>

\* the depth test off by one: contents still listed when no budget is left
LocalHasContents_OffByOne(depth) == depth >= 0

LocalHasContents(depth) == depth > 0

RECURSIVE _compute_target_info(_, _)
_compute_target_info(path, depth) ==
    IF IsAzfs(path) THEN _compute_target_info_beam(path, depth)
    ELSE IF ~lstat(path).ok THEN Raise("FileNotFoundError", path)
    ELSE
        LET st == Disk[lstat(path).at]
            result == [name |-> basename(path), size |-> st.size, perm |-> st.mode % 512]
                          @@ LocalType(path)
            names == listdir(path)
            children == [i \in 1..Len(names) |->
                            _compute_target_info(join(path, names[i]), depth - 1)]
        IN  IF ~islink(path) /\ ~isfile(path) /\ isdir(path) /\ LocalHasContents(depth)
            THEN IF FirstRaise(children) # <<>> THEN FirstRaise(children)[1]
                 ELSE Return(result @@ [contents |-> Values(children)])
            ELSE Return(result)

NOT_FOUND == " not found"

NotFoundMessage(target) ==
    <<"Path ">> \o target.bundle_uuid \o <<" in bundle ">> \o target.subpath
        \o <<NOT_FOUND>>

get_target_info(bundle_path, target, depth) ==
    LET final_path == _get_normalized_target_path(bundle_path, target)
    IN  IF final_path.kind = "raise" THEN final_path
        ELSE IF ~IsAzfs(final_path.value) /\ ~islink(final_path.value)
                /\ ~exists(final_path.value)
        THEN Raise("PathException", NotFoundMessage(target))
        ELSE
            LET info == _compute_target_info(final_path.value, depth)
            IN  IF info.kind = "raise" THEN info
                ELSE Return(info.value @@ [resolved_target |-> target])

(***************************************************************************)
(* The calls: a request is drawn, the entry point it names runs to          *)
(* completion and leaves what it returned or raised in res.                 *)
(***************************************************************************)
MaxLocalSegs == 2

MaxArchiveSegs == 3

MaxDepth == 2

LocalSegs == {<<>>, DOTDOT, na, nab, nb, nd, nf, nl, np}

ArchiveSegs == {<<>>, DOTDOT, na, nb, FILE_TXT}

\* the subpaths of at most n segments
Subpaths(segs, n) == {Join(q, SEP) : q \in UNION {[1..k -> segs] : k \in 0..n}}

LocalRoots == {<<SEP>>, <<SEP>> \o nx, <<SEP>> \o nx \o <<SEP>> \o na,
               <<SEP>> \o nx \o <<SEP>> \o nr}

AzfsRoots == {Locator(STORAGE, BUNDLES, uu, CONTENTS_ZIP),
              Locator(<<"s">>, <<"c">>, uu, CONTENTS_ZIP),
              Locator(STORAGE, BUNDLES, uv, CONTENTS),
              Locator(STORAGE, BUNDLES, uw, CONTENTS_ZIP)}

Uuids == {uu, uv}

Addressed ==
    {[bundle_path |-> b, target |-> BundleTarget(u, p)] :
        b \in LocalRoots, u \in Uuids, p \in Subpaths(LocalSegs, MaxLocalSegs)}
    \cup {[bundle_path |-> b, target |-> BundleTarget(u, p)] :
        b \in AzfsRoots, u \in Uuids, p \in Subpaths(ArchiveSegs, MaxArchiveSegs)}

Requests ==
    {[op |-> "get_target_path", bundle_path |-> a.bundle_path, target |-> a.target,
      depth |-> 0] : a \in Addressed}
    \cup {[op |-> "get_target_info", bundle_path |-> a.bundle_path, target |-> a.target,
           depth |-> d] : a \in Addressed, d \in 0..MaxDepth}

Pending == [kind |-> "pending"]

NoEntry == [plain |-> <<>>, data |-> <<>>]

StreamIdle ==
    /\ zin = NoEntry
    /\ zbuf = <<>>
    /\ zpos = 0
    /\ zstate = 0
    /\ zout = <<>>
    /\ zresumed = FALSE

Init ==
    /\ req \in Requests
    /\ res = Pending
    /\ StreamIdle

GetTargetPath ==
    /\ req.op = "get_target_path"
    /\ res = Pending
    /\ res' = get_target_path(req.bundle_path, req.target)
    /\ UNCHANGED <<req, zin, zbuf, zpos, zstate, zout, zresumed>>

GetTargetInfo ==
    /\ req.op = "get_target_info"
    /\ res = Pending
    /\ res' = get_target_info(req.bundle_path, req.target, req.depth)
    /\ UNCHANGED <<req, zin, zbuf, zpos, zstate, zout, zresumed>>

Next == GetTargetPath \/ GetTargetInfo

Spec == Init /\ [][Next]_vars

(***************************************************************************)
(* Properties of path resolution                                           *)
(***************************************************************************)
Done == res # Pending

Returned == Done /\ res.kind = "return"

Raised(type) == Done /\ res.kind = "raise" /\ res.type = type

\* the failure a PathException reports: the fixed text that ends its message
FailureOf(r) == r.message[Len(r.message)]

RaisedPath(text) == Raised("PathException") /\ FailureOf(res) = text

LocalRequest == ~IsAzfs(req.bundle_path)

Components(path) == SelectSeq(Split(path, SEP), LAMBDA c : c # <<>>)

\* the location a local request names: root and subpath joined, '.' and '..' collapsed
Location == normpath(_get_target_path(realpath(req.bundle_path), req.target.subpath))

\* the location is the bundle root or a path below it, component by component
InsideRoot ==
    LET root == Components(realpath(req.bundle_path))
        loc == Components(Location)
    IN  Len(root) <= Len(loc) /\ SubSeq(loc, 1, Len(root)) = root

\* C1: every subpath of a local bundle whose normalized location leaves the
\* bundle root is refused with the 'is not inside the bundle' PathException by
\* get_target_path and by get_target_info; no location outside the root is
\* returned or indexed.
C1_TraversalRefused ==
    (Done /\ LocalRequest /\ ~InsideRoot) => RaisedPath(NOT_INSIDE)

\* a request that passed the prefix test of _get_normalized_target_path
Selected == Done /\ LocalRequest /\ StartsWith(Location, realpath(req.bundle_path))

\* the node the location names, symbolic links followed in every component but the last
TargetNode == IF lstat(Location).ok THEN Disk[lstat(Location).at].kind ELSE "absent"

\* some directory component of the location, below the root, is a symbolic link
ThroughLink ==
    LET loc == Components(Location)
    IN  \E n \in 1..(Len(loc) - 1) :
            /\ SubSeq(loc, 1, n) \in DOMAIN Disk
            /\ Disk[SubSeq(loc, 1, n)].kind = "link"

\* C2: get_target_path raises the symlink PathException whenever the selected
\* target location is itself a symbolic link; a target that only passes through
\* a symbolic link to a directory, and is not a link itself, is returned as the
\* normalized location.
C2_SymlinkTarget ==
    (Selected /\ req.op = "get_target_path") =>
        /\ TargetNode = "link" => RaisedPath(IS_SYMLINK)
        /\ TargetNode # "link" => res = Return(Location)

C2_Witness ==
    /\ Selected
    /\ req.op = "get_target_path"
    /\ ThroughLink
    /\ TargetNode = "file"
    /\ res = Return(Location)

(***************************************************************************)
(* Properties of the index                                                 *)
(***************************************************************************)
Indexed == Returned /\ req.op = "get_target_info"

IsDirNode(node) == "type" \in DOMAIN node /\ node.type = "directory"

HasContents(node) == "contents" \in DOMAIN node

RECURSIVE DepthBounded(_, _)
DepthBounded(node, budget) ==
    /\ HasContents(node) =>
           /\ budget > 0
           /\ \A i \in 1..Len(node.contents) : DepthBounded(node.contents[i], budget - 1)
    /\ IsDirNode(node) => (HasContents(node) <=> budget > 0)

\* C3: in the tree get_target_info returns for depth d, local or azfs, 'contents'
\* is never nested more than d levels below the root: a directory node carries
\* 'contents' exactly while its remaining budget is positive, and each level is
\* built with the budget reduced by one.
C3_DepthBudget == Indexed => DepthBounded(res.value, req.depth)

C3_Witness ==
    /\ Indexed
    /\ ~LocalRequest
    /\ req.depth = 1
    /\ HasContents(res.value)
    /\ \E i \in 1..Len(res.value.contents) :
           IsDirNode(res.value.contents[i]) /\ ~HasContents(res.value.contents[i])

\* the azfs locator a request names, as _compute_target_info_beam parses it
Url == parse_azure_url(_get_target_path(req.bundle_path, req.target.subpath))

ArchiveRequest == ~LocalRequest /\ Url.is_zip /\ Url.zip_path \in DOMAIN Blobs

Archive == Blobs[Url.zip_path].infolist

\* the entries directly inside the directory prefix: nothing but the entry's own
\* name follows the prefix
ImmediateChildren(infolist, prefix) ==
    SelectSeq(infolist, LAMBDA z :
        /\ StartsWith(z.filename, prefix)
        /\ z.filename # prefix
        /\ Find(RStrip(Drop(z.filename, Len(prefix)), SEP), SEP, 1) = 0)

ChildName(z) == IF is_dir(z) THEN z.filename ELSE get_last_part(z.filename)

RECURSIVE ContentsImmediate(_, _, _)
ContentsImmediate(node, prefix, infolist) ==
    HasContents(node) =>
        LET kids == ImmediateChildren(infolist, prefix)
        IN  /\ Len(node.contents) = Len(kids)
            /\ \A k \in 1..Len(kids) :
                   \E i \in 1..Len(node.contents) :
                       /\ node.contents[i].name = ChildName(kids[k])
                       /\ is_dir(kids[k]) =>
                              ContentsImmediate(node.contents[i], kids[k].filename, infolist)

\* C4: in the tree built for an archive, the 'contents' of every directory node
\* are exactly the entries directly inside that directory: no entry of a nested
\* directory, not the directory itself, and none of its direct entries left out.
C4_ImmediateChildren ==
    (Indexed /\ ArchiveRequest) => ContentsImmediate(res.value, Url.zip_subpath, Archive)

\* the location a request resolves to does not exist
Absent ==
    IF LocalRequest
    THEN StartsWith(Location, realpath(req.bundle_path)) /\ TargetNode = "absent"
    ELSE \/ ~Url.is_zip /\ _get_target_path(req.bundle_path, req.target.subpath)
                              \notin DOMAIN Blobs
         \/ Url.is_zip /\ Url.zip_path \notin DOMAIN Blobs
         \/ /\ ArchiveRequest
            /\ Url.zip_subpath # <<>>
            /\ \A i \in 1..Len(Archive) : Archive[i].filename # Url.zip_subpath

\* C5: get_target_info raises the not-found PathException whenever the resolved
\* location does not exist, on the local filesystem as in the blob store (a
\* missing blob, or an internal path that names no entry of the archive).
C5_NotFound ==
    (Done /\ req.op = "get_target_info" /\ Absent) => RaisedPath(NOT_FOUND)

\* the '..' segments of the subpath lead out of the directory it is relative to
EscapesArchive ==
    LET comps == NormComps(Split(req.target.subpath, SEP), <<>>, 0)
    IN  comps # <<>> /\ comps[1] = DOTDOT

\* C6: under an azfs bundle root, a subpath whose '..' segments take the
\* internal path out of its root is refused with the 'is not inside the bundle'
\* PathException.
C6_ArchiveTraversalRefused ==
    (Done /\ ~LocalRequest /\ EscapesArchive) => RaisedPath(NOT_INSIDE)

Run(bundle_path) ==
    IF req.op = "get_target_path" THEN get_target_path(bundle_path, req.target)
    ELSE get_target_info(bundle_path, req.target, req.depth)

FailsAlike(bundle_path) ==
    LET other == Run(bundle_path)
    IN  /\ other.kind = "raise"
        /\ other.type = "PathException"
        /\ FailureOf(other) = FailureOf(res)

\* C7: the message of a PathException depends on the requested bundle_uuid and
\* subpath alone: the same BundleTarget resolved against any other bundle_path
\* that fails in the same way fails with the same message.
C7_MessageFromTarget ==
    Raised("PathException") =>
        \A b \in LocalRoots \cup AzfsRoots :
            FailsAlike(b) => Run(b).message = res.message

C7_Witness ==
    /\ Raised("PathException")
    /\ \E b \in LocalRoots :
           /\ realpath(b) # realpath(req.bundle_path)
           /\ FailsAlike(b)
           /\ Run(b).message = res.message

\* the sizes of the entries whose name begins with the prefix
BeneathSize(infolist, prefix) ==
    LET under == SelectSeq(infolist, LAMBDA z : StartsWith(z.filename, prefix))
    IN  Sum([i \in 1..Len(under) |-> under[i].file_size])

RECURSIVE SizesAggregate(_, _, _)
SizesAggregate(node, prefix, infolist) ==
    IsDirNode(node) =>
        /\ node.size = BeneathSize(infolist, prefix)
        /\ HasContents(node) =>
               \A i \in 1..Len(node.contents) :
                   SizesAggregate(node.contents[i], node.contents[i].name, infolist)

\* C8: the size of every directory node built for an archive is the sum of the
\* uncompressed sizes of the entries beneath it: of all entries for the node of
\* the whole archive, of the entries under the directory for an internal one.
C8_DirectorySize ==
    (Indexed /\ ArchiveRequest) => SizesAggregate(res.value, Url.zip_subpath, Archive)

RECURSIVE KindsOK(_)
KindsOK(node) ==
    /\ "type" \in DOMAIN node
    /\ node.type \in {"file", "directory", "link"}
    /\ "link" \in DOMAIN node <=> node.type = "link"
    /\ HasContents(node) => \A i \in 1..Len(node.contents) : KindsOK(node.contents[i])

\* C10: every node of a tree indexed on the local filesystem has a type among
\* 'file', 'directory' and 'link', and a link target exactly when it is a link.
C10_NodeKinds == (Indexed /\ LocalRequest) => KindsOK(res.value)

\* a call that indexes an archive and recurses into at least one directory of it
Recursing ==
    /\ Done
    /\ req.op = "get_target_info"
    /\ ArchiveRequest
    /\ req.depth > 0
    /\ \E i \in 1..Len(BeamListed(Archive, Url.zip_subpath)) :
           is_dir(BeamListed(Archive, Url.zip_subpath)[i])

\* C11: whatever azfs locator the top-level call is given (storage account,
\* container, archive), every nested call of _compute_target_info_beam opens
\* the archive blob of that locator and no other blob.
C11_SameArchive ==
    Recursing =>
        BeamOpened(_get_target_path(req.bundle_path, req.target.subpath), req.depth)
            \subseteq {Url.zip_path}

(***************************************************************************)
(* StreamingZipFile: one entry read through open() while the byte source   *)
(* under it is still being written (test_unseekable_file_read_partially).  *)
(* zin is the entry (its contents and its compressed bytes), zbuf the       *)
(* compressed bytes written to the source so far, zpos the reader's         *)
(* position in it, zstate the decompressor's state, zout the bytes the      *)
(* reads have returned, zresumed whether bytes were appended after the      *)
(* reader had consumed all that was there.                                  *)
(*                                                                         *)
(* The compression method is a delta code: a compressed byte is the         *)
(* difference to the byte before it, so that decompressing a byte needs the *)
(* state left by the bytes before it.                                       *)
(***************************************************************************)
Radix == 3

MaxEntryLen == 4

MaxRead == 2

RECURSIVE CompressFrom(_, _)
CompressFrom(prev, plain) ==
    IF plain = <<>> THEN <<>>
    ELSE <<(Head(plain) - prev) % Radix>> \o CompressFrom(Head(plain), Tail(plain))

Compress(plain) == CompressFrom(0, plain)

RECURSIVE InflateFrom(_, _)
InflateFrom(state, data) ==
    IF data = <<>> THEN [out |-> <<>>, state |-> state]
    ELSE
        LET byte == (state + Head(data)) % Radix
            rest == InflateFrom(byte, Tail(data))
        IN  [out |-> <<byte>> \o rest.out, state |-> rest.state]

\* the decompressor started afresh on every call
decompress_Reinitialised(state, data) == InflateFrom(0, data)

\* the decompressor fed the next compressed bytes: it resumes from its state
decompress(state, data) == InflateFrom(state, data)

Entries ==
    {[plain |-> p, data |-> Compress(p)] :
        p \in UNION {[1..n -> 0..(Radix - 1)] : n \in 1..MaxEntryLen}}

RequestIdle ==
    /\ req = [op |-> "none"]
    /\ res = Pending

\* the entry is opened with a prefix of its compressed bytes in the source
StreamInit ==
    /\ RequestIdle
    /\ zin \in Entries
    /\ \E k \in 0..Len(zin.data) : zbuf = SubSeq(zin.data, 1, k)
    /\ zpos = 0
    /\ zstate = 0
    /\ zout = <<>>
    /\ zresumed = FALSE

\* the producer appends the next compressed bytes; the reader's position stays
ZWrite ==
    /\ Len(zbuf) < Len(zin.data)
    /\ \E k \in 1..(Len(zin.data) - Len(zbuf)) :
           zbuf' = zbuf \o SubSeq(zin.data, Len(zbuf) + 1, Len(zbuf) + k)
    /\ zresumed' = (zresumed \/ (zpos > 0 /\ zpos = Len(zbuf)))
    /\ UNCHANGED <<req, res, zin, zpos, zstate, zout>>

\* _read1(n): up to n compressed bytes that have been written are consumed and
\* returned decompressed
ZRead1 ==
    /\ zpos < Len(zbuf)
    /\ \E n \in 1..MaxRead :
           LET take == IF n < Len(zbuf) - zpos THEN n ELSE Len(zbuf) - zpos
               got == decompress(zstate, SubSeq(zbuf, zpos + 1, zpos + take))
           IN  /\ zpos' = zpos + take
               /\ zstate' = got.state
               /\ zout' = zout \o got.out
    /\ UNCHANGED <<req, res, zin, zbuf, zresumed>>

StreamNext == ZWrite \/ ZRead1

SpecStream == StreamInit /\ [][StreamNext]_vars

\* C9: whatever the split of the compressed bytes into what is there at first
\* and what is appended later, and however appends and reads interleave, the
\* bytes the reads return are, in order, the bytes decompressing the complete
\* buffer at once gives: a prefix of them at any time, and the entry's full
\* contents once every compressed byte has been consumed.
C9_StreamedEqualsWhole ==
    LET whole == InflateFrom(0, zin.data).out
    IN  /\ zout = SubSeq(whole, 1, zpos)
        /\ zpos = Len(zin.data) => zout = zin.plain

C9_Witness ==
    /\ zresumed
    /\ \A i \in 1..Len(zin.plain) : zin.plain[i] # 0
    /\ zpos = Len(zin.data)
    /\ Len(zin.plain) = MaxEntryLen
    /\ zout = zin.plain

====
